---- MODULE Spec2Model ----
(***************************************************************************)
(* A model of the connection-establishment layer of rust-websocket:        *)
(*   src/src/client/dns.rs     the per-domain registry of ranked addresses *)
(*                             (DOMAIN2SORTED_ADDRS) and the racing plan   *)
(*   src/src/client/tunnel.rs  the HTTP CONNECT tunnel future              *)
(*                                                                         *)
(* The registry is a HashMap<String, BTreeSet<SortedAddr>>.  With at most  *)
(* LeafCapacity elements a BTreeSet is one leaf node, kept as a sequence   *)
(* in the order the set iterates; a lookup scans the leaf from the left    *)
(* and stops at the first key the probe does not compare Greater to.       *)
(***************************************************************************)
EXTENDS Integers, Sequences, FiniteSets, TLC

(* ------------------------------ bounds -------------------------------- *)

\* longest candidate list handed to insert_domain_sorted_addrs
MaxList == 2
\* registry-mutating calls in one behaviour of Spec, RegistrySpec, ConcSpec
PlanOps == 3
MaxOps == 4
ConcOps == 3
\* most bytes one write accepts or one read delivers
MaxChunk == 45
\* most mutating calls on the stores in one behaviour
StoreOps == 2
OverrideOps == 4

\* raw IP addresses, ordered as the integers
IPs == {1, 2, 3}
Domains == {"d1"}
\* connection costs in milliseconds reported by callers
Costs == {10, 400}
Ports == {443}

(* --------------------------- program constants ------------------------ *)

\* std::i32::MAX
I32Max == 2147483647
\* enum AddrSource
HttpDNS == 0
LocalDNS == 1
HardCodeIp == 2
AddrSource == {HttpDNS, LocalDNS, HardCodeIp}
\* the sources the callers of the model refresh
Sources == {HttpDNS, LocalDNS}
\* the cost window of update_domain_sorted_addr_cost
MaxCosts == 3
\* SortedAddr::delay_time
UnusedDelay == 300
DelayCap == 600
DelaySlack == 250
\* get_sorted_addrs: the window of slot i is [MinDelay * i, MaxDelay * i]
MinDelay == 300
MaxDelay == 600
\* a BTreeSet node holds at most 2 * B - 1 = 11 keys
LeafCapacity == 11
\* the port of every override
HttpsPort == 443

(* ------------------------------ helpers ------------------------------- *)

MinOf(a, b) == IF a < b THEN a ELSE b
MaxOf(a, b) == IF a < b THEN b ELSE a

\* i32 addition of a release build: two's complement wrap-around (no
\* intermediate value leaves the i32 range)
Add32(a, b) ==
    IF b > 0 /\ a > I32Max - b THEN ((a - I32Max) + (b - I32Max)) - 2
    ELSE IF b < 0 /\ a < (-I32Max - 1) - b THEN ((a + I32Max) + (b + I32Max)) + 2
    ELSE a + b

RECURSIVE Mul32(_, _)
\* i32 multiplication by a small non-negative factor
Mul32(a, n) == IF n = 0 THEN 0 ELSE Add32(Mul32(a, n - 1), a)

\* i32 division truncates toward zero
TruncDiv(a, b) == IF a >= 0 THEN a \div b ELSE -((-a) \div b)

RECURSIVE Sum32(_)
\* iter().sum() adds from the front
Sum32(s) == IF s = <<>> THEN 0 ELSE Add32(Sum32(SubSeq(s, 1, Len(s) - 1)), s[Len(s)])

InsertAt(s, i, v) == SubSeq(s, 1, i - 1) \o <<v>> \o SubSeq(s, i, Len(s))
RemoveAt(s, i) == SubSeq(s, 1, i - 1) \o SubSeq(s, i + 1, Len(s))

\* every enumeration order of a finite set
Orders(S) ==
    { f \in [1 .. Cardinality(S) -> S] : \A i, j \in DOMAIN f : i # j => f[i] # f[j] }

(* ------------------------------ SortedAddr ---------------------------- *)

\* SortedAddr::new
NewSortedAddr(addr, is_rto, source) ==
    [addr |-> addr, is_rto |-> is_rto, source |-> source, connect_costs |-> <<>>]

avg_cost(a) ==
    IF a.connect_costs = <<>>
    THEN I32Max
    ELSE TruncDiv(Sum32(a.connect_costs), Len(a.connect_costs))

\* the i32 addition a + b leaves the i32 range
AddOverflows(a, b) ==
    \/ b > 0 /\ a > I32Max - b
    \/ b < 0 /\ a < (-I32Max - 1) - b

RECURSIVE SumOverflows(_)
\* some addition of iter().sum::<i32>() leaves the i32 range
SumOverflows(s) ==
    IF s = <<>> THEN FALSE
    ELSE \/ SumOverflows(SubSeq(s, 1, Len(s) - 1))
         \/ AddOverflows(Sum32(SubSeq(s, 1, Len(s) - 1)), s[Len(s)])

\* what a call of avg_cost can end in: its value; where an addition
\* overflows, the wrapped value in a build without overflow checks and a
\* panic ("attempt to add with overflow") in a build with them
avg_cost_outcomes(a) ==
    {[kind |-> "value", value |-> avg_cost(a)]}
        \cup (IF SumOverflows(a.connect_costs) THEN {[kind |-> "panic", value |-> 0]} ELSE {})

has_been_used(a) == a.connect_costs # <<>>

delay_time(a) ==
    IF a.connect_costs = <<>>
    THEN UnusedDelay
    ELSE MinOf(DelayCap, Add32(avg_cost(a), DelaySlack))

IntCmp(x, y) == IF x < y THEN "Less" ELSE IF x = y THEN "Equal" ELSE "Greater"
\* bool: false < true
BoolCmp(x, y) == IntCmp(IF x THEN 1 ELSE 0, IF y THEN 1 ELSE 0)

\* impl Ord for SortedAddr
cmp(self, other) ==
    IF self.addr = other.addr THEN "Equal"
    ELSE IF avg_cost(self) # avg_cost(other)
         THEN IntCmp(avg_cost(self), avg_cost(other))
    ELSE IF self.is_rto # other.is_rto
         THEN BoolCmp(other.is_rto, self.is_rto)
    ELSE IF self.source # other.source
         THEN IntCmp(self.source, other.source)
    ELSE IntCmp(self.addr, other.addr)

(* ------------------------- BTreeSet<SortedAddr> ----------------------- *)

\* the leaf scan: skip the keys the probe is Greater than, stop at the first
\* Equal (found) or Less (the place an insertion goes to)
search(s, key) ==
    LET stops == { i \in 1 .. Len(s) : cmp(key, s[i]) # "Greater" }
    IN  IF stops = {}
        THEN [found |-> FALSE, idx |-> Len(s) + 1]
        ELSE LET i == CHOOSE k \in stops : \A j \in stops : k <= j
             IN  [found |-> cmp(key, s[i]) = "Equal", idx |-> i]

\* BTreeSet::insert: an element comparing Equal stays, the new one is dropped
btree_insert(s, v) ==
    LET r == search(s, v)
    IN  IF r.found THEN s ELSE InsertAt(s, r.idx, v)

\* BTreeSet::take / BTreeSet::remove: the element found, as an Option
btree_take(s, key) ==
    LET r == search(s, key)
    IN  IF r.found
        THEN [set |-> RemoveAt(s, r.idx), taken |-> <<s[r.idx]>>]
        ELSE [set |-> s, taken |-> <<>>]

(* --------------------- the per-domain registry ------------------------ *)

\* HashMap::insert / entry().or_insert: bind domain d of map m to v
MapPut(m, d, v) == [x \in (DOMAIN m) \cup {d} |-> IF x = d THEN v ELSE m[x]]

\* the elements of a set, as the HashSet holds them (derived PartialEq: two
\* elements are the same only when every field agrees)
Elems(s) == { s[i] : i \in 1 .. Len(s) }

RECURSIVE RemoveEach(_, _)
\* for addr in &removed_addrs { addrs.remove(addr); }
RemoveEach(s, order) ==
    IF order = <<>> THEN s
    ELSE RemoveEach(btree_take(s, Head(order)).set, Tail(order))

\* the entries remove_old_domain_sorted_addrs collects into its HashSet
RemovedAddrs(m, domain, source) ==
    IF domain \in DOMAIN m
    THEN { a \in Elems(m[domain]) : a.source = source }
    ELSE {}

\* remove_old_domain_sorted_addrs, one critical section; `order` is the order
\* in which the HashSet of removed entries is iterated
remove_old_domain_sorted_addrs(m, domain, source, order) ==
    IF domain \notin DOMAIN m
    THEN [map |-> m, removed |-> {}]
    ELSE [map |-> MapPut(m, domain, RemoveEach(m[domain], order)),
          removed |-> RemovedAddrs(m, domain, source)]

\* one turn of the loop of insert_domain_sorted_addrs over candidate addr
MergeOne(entry, old_addrs, addr) ==
    IF addr \in old_addrs
    THEN \* old_addrs.take(&addr) is Some(old_addr), equal to addr field by field
         [entry |-> btree_insert(entry, addr), old |-> old_addrs \ {addr}]
    ELSE LET t == btree_take(entry, addr)
             a == IF t.taken # <<>>
                  THEN [t.taken[1] EXCEPT !.is_rto = t.taken[1].is_rto \/ addr.is_rto]
                  ELSE addr
         IN  [entry |-> btree_insert(t.set, a), old |-> old_addrs]

RECURSIVE MergeAll(_, _, _)
MergeAll(entry, old_addrs, sorted_addrs) ==
    IF sorted_addrs = <<>> THEN entry
    ELSE LET r == MergeOne(entry, old_addrs, Head(sorted_addrs))
         IN  MergeAll(r.entry, r.old, Tail(sorted_addrs))

\* the second critical section of insert_domain_sorted_addrs (lines 153-170)
merge_domain_sorted_addrs(m, domain, sorted_addrs, old_addrs) ==
    LET entry == IF domain \in DOMAIN m THEN m[domain] ELSE <<>>
    IN  MapPut(m, domain, MergeAll(entry, old_addrs, sorted_addrs))

\* insert_domain_sorted_addrs run without another caller in between
insert_domain_sorted_addrs(m, domain, sorted_addrs, source, order) ==
    LET r == remove_old_domain_sorted_addrs(m, domain, source, order)
    IN  merge_domain_sorted_addrs(r.map, domain, sorted_addrs, r.removed)

\* addr.connect_costs.push(cost_ms); drop the oldest beyond the window
PushCost(costs, cost_ms) ==
    LET c == Append(costs, cost_ms)
    IN  IF MaxCosts < Len(c) THEN Tail(c) ELSE c

\* a lookup that falls back on the best-ranked entry when the IP is missing
Locate_fallback(s, addr) ==
    LET hits == { i \in 1 .. Len(s) : s[i].addr = addr }
    IN  IF s = <<>> THEN <<>>
        ELSE IF hits = {} THEN <<s[1]>>
        ELSE <<s[CHOOSE i \in hits : \A j \in hits : i <= j]>>

\* the first entry, in iteration order, whose IP is addr (lines 186-192)
Locate(s, addr) ==
    LET hits == { i \in 1 .. Len(s) : s[i].addr = addr }
    IN  IF hits = {} THEN <<>>
        ELSE <<s[CHOOSE i \in hits : \A j \in hits : i <= j]>>

\* a cost report that leaves the entry where it sits
update_domain_sorted_addr_cost_inplace(m, domain, addr, cost_ms) ==
    IF domain \notin DOMAIN m THEN m
    ELSE LET addrs == m[domain]
             hits == { i \in 1 .. Len(addrs) : addrs[i].addr = addr }
         IN  IF hits = {} THEN m
             ELSE LET i == CHOOSE h \in hits : \A j \in hits : h <= j
                  IN  MapPut(m, domain,
                             [addrs EXCEPT ![i].connect_costs = PushCost(@, cost_ms)])

\* update_domain_sorted_addr_cost
update_domain_sorted_addr_cost(m, domain, addr, cost_ms) ==
    IF domain \notin DOMAIN m THEN m
    ELSE LET addrs == m[domain]
             sorted_addr == Locate(addrs, addr)
         IN  IF sorted_addr = <<>> THEN m
             ELSE LET t == btree_take(addrs, sorted_addr[1])
                  IN  IF t.taken = <<>> THEN m
                      ELSE LET a == [t.taken[1] EXCEPT
                                       !.connect_costs = PushCost(@, cost_ms)]
                           IN  MapPut(m, domain, btree_insert(t.set, a))

(* --------------------------- the racing plan -------------------------- *)

SocketAddr(ip, port) == [ip |-> ip, port |-> port]

\* SocketAddrWithDelayTime::new / ::from_sorted_addr
WithDelay(addr, delay) == [addr |-> addr, delay_time |-> delay]
from_sorted_addr(a, port) == WithDelay(SocketAddr(a.addr, port), delay_time(a))

has_selected(sel, a) == \E i \in 1 .. Len(sel) : sel[i].addr.ip = a.addr

\* Slate with a fault: the third slot takes the first unused address even
\* when a slot already holds it
Slate_unselected(addrs, port) ==
    LET fastest == from_sorted_addr(addrs[1], port)
        two == IF 1 < Len(addrs)
               THEN <<fastest, from_sorted_addr(addrs[2], port)>>
               ELSE <<fastest, fastest>>
        fresh == { i \in 1 .. Len(addrs) : ~has_been_used(addrs[i]) }
    IN  IF fresh = {}
        THEN Append(two, fastest)
        ELSE Append(two, from_sorted_addr(
                 addrs[CHOOSE i \in fresh : \A j \in fresh : i <= j], port))

\* lines 258-282: the three slots chosen from the ranked view
Slate(addrs, port) ==
    LET fastest == from_sorted_addr(addrs[1], port)
        two == IF 1 < Len(addrs)
               THEN <<fastest, from_sorted_addr(addrs[2], port)>>
               ELSE <<fastest, fastest>>
        fresh == { i \in 1 .. Len(addrs) :
                     ~has_been_used(addrs[i]) /\ ~has_selected(two, addrs[i]) }
    IN  IF fresh = {}
        THEN Append(two, fastest)
        ELSE Append(two, from_sorted_addr(
                 addrs[CHOOSE i \in fresh : \A j \in fresh : i <= j], port))

\* EnsureFirst with a fault: first_addr replaces the first slot
EnsureFirst_replace(sorted_addrs, first) ==
    IF \E i \in 1 .. Len(sorted_addrs) : sorted_addrs[i].addr = first.addr
    THEN sorted_addrs
    ELSE <<first>> \o Tail(sorted_addrs)

\* lines 284-295: first_addr goes to the front when no slot holds it
EnsureFirst(sorted_addrs, first) ==
    IF \E i \in 1 .. Len(sorted_addrs) : sorted_addrs[i].addr = first.addr
    THEN sorted_addrs
    ELSE SubSeq(<<first>> \o sorted_addrs, 1, Len(sorted_addrs))

\* get_delay_time with a fault: the lower end of the window is not applied
get_delay_time_nofloor(delay, min, max) == MinOf(max, delay)

get_delay_time(delay, min, max) == MinOf(max, MaxOf(min, delay))

\* lines 302-310
AssignDelays(sorted_addrs) ==
    [i \in 1 .. Len(sorted_addrs) |->
        IF i = 1
        THEN [sorted_addrs[i] EXCEPT !.delay_time = 0]
        ELSE [sorted_addrs[i] EXCEPT !.delay_time =
                 get_delay_time(Mul32(@, i - 1),
                                MinDelay * (i - 1), MaxDelay * (i - 1))]]

\* get_sorted_addrs with a fault: is_complex_conn is not looked at
get_sorted_addrs_always(m, domain, is_complex_conn, first_addr) ==
    LET first == WithDelay(first_addr, 0)
    IN  IF domain \notin DOMAIN m THEN <<first>>
        ELSE IF m[domain] = <<>> THEN <<first>>
        ELSE AssignDelays(EnsureFirst(Slate(m[domain], first_addr.port), first))

\* get_sorted_addrs
get_sorted_addrs(m, domain, is_complex_conn, first_addr) ==
    LET first == WithDelay(first_addr, 0)
    IN  IF ~is_complex_conn THEN <<first>>
        ELSE IF domain \notin DOMAIN m THEN <<first>>
        ELSE IF m[domain] = <<>> THEN <<first>>
        ELSE AssignDelays(EnsureFirst(Slate(m[domain], first_addr.port), first))

(* ------------- the override store, the cache, the connected cell ------ *)

\* the texts handed to set_custom_addr, as sequences of characters
IpTexts ==
    { <<"9", "3", ".", "1", "8", "4", ".", "2", "1", "6", ".", "3", "4">>,
      <<"1", "0", ".", "0", ".", "0", ".", "1">>,
      <<"2", "5", "6", ".", "0", ".", "0", ".", "1">>,
      <<"1", "0", ".", "0", ".", "0">>,
      <<"1", "0", ".", "0", ".", "0", ".", "x">>,
      <<>> }

IsDigit(c) == c \in {"0", "1", "2", "3", "4", "5", "6", "7", "8", "9"}

DigitValue(c) ==
    CHOOSE v \in 0 .. 9 :
        <<"0", "1", "2", "3", "4", "5", "6", "7", "8", "9">>[v + 1] = c

RECURSIVE NumberOf(_)
\* the value of a run of decimal digits
NumberOf(digits) ==
    IF digits = <<>> THEN 0
    ELSE 10 * NumberOf(SubSeq(digits, 1, Len(digits) - 1)) + DigitValue(digits[Len(digits)])

RECURSIVE SplitDots(_)
\* the pieces of a text between its dots
SplitDots(text) ==
    LET dots == { i \in 1 .. Len(text) : text[i] = "." }
    IN  IF dots = {} THEN <<text>>
        ELSE LET i == CHOOSE d \in dots : \A e \in dots : d <= e
             IN  <<SubSeq(text, 1, i - 1)>> \o SplitDots(SubSeq(text, i + 1, Len(text)))

\* str::parse::<Ipv4Addr>: four pieces of one to three digits, none above
\* 255; <<octets>> for Ok, <<>> for Err
parse_ipv4(text) ==
    LET parts == SplitDots(text)
        octet(part) ==
            /\ Len(part) \in 1 .. 3
            /\ \A i \in 1 .. Len(part) : IsDigit(part[i])
            /\ NumberOf(part) <= 255
    IN  IF Len(parts) = 4 /\ \A i \in 1 .. 4 : octet(parts[i])
        THEN <<[i \in 1 .. 4 |-> NumberOf(parts[i])]>>
        ELSE <<>>

\* HashMap::get(...).cloned()
MapGet(m, d) == IF d \in DOMAIN m THEN <<m[d]>> ELSE <<>>

\* HashMap::remove
MapRemove(m, d) == [x \in DOMAIN m \ {d} |-> m[x]]

\* a setter that stores malformed text under the unspecified address
set_custom_addr_unparsed(m, poisoned_lock, domain, text) ==
    IF poisoned_lock THEN m
    ELSE LET ip == parse_ipv4(text)
         IN  MapPut(m, domain,
                    [ip |-> IF ip = <<>> THEN <<0, 0, 0, 0>> ELSE ip[1], port |-> 443])

\* set_custom_addr: write() fails on a poisoned lock and the call does nothing
set_custom_addr(m, poisoned_lock, domain, text) ==
    IF poisoned_lock THEN m
    ELSE LET ip == parse_ipv4(text)
         IN  IF ip = <<>> THEN m
             ELSE MapPut(m, domain, [ip |-> ip[1], port |-> HttpsPort])

\* try_get_custom_addr / try_get_cached_addr: None on a poisoned lock
try_get_addr(m, poisoned_lock, domain) ==
    IF poisoned_lock THEN <<>> ELSE MapGet(m, domain)

\* remove_custom_addr
remove_custom_addr(m, poisoned_lock, domain) ==
    IF poisoned_lock THEN m ELSE MapRemove(m, domain)

\* cache_addr
cache_addr(m, poisoned_lock, domain, addr) ==
    IF poisoned_lock THEN m ELSE MapPut(m, domain, addr)

\* set_connected_addr
set_connected_addr(cell, poisoned_lock, addr) ==
    IF poisoned_lock THEN cell ELSE <<addr>>

\* get_connected_addr
get_connected_addr(cell, poisoned_lock) ==
    IF poisoned_lock THEN <<>> ELSE cell

\* the four locks of the module
Stores == {"DOMAIN2SORTED_ADDRS", "CUSTOM_DOMAIN2ADDR", "CACHED_DOMAIN2ADDR", "CONNECTED_ADDR"}

\* the domains the override store is asked about
StoreDomains == {"d1", "d2"}

(* --------------------------- the CONNECT tunnel ----------------------- *)

\* bytes are one-character strings; CR and LF stand for \r and \n
CRLF == <<"CR", "LF">>
Terminator == CRLF \o CRLF

DigitChars == <<"0", "1", "2", "3", "4", "5", "6", "7", "8", "9">>

RECURSIVE Decimal(_)
\* format!("{}", port): the decimal digits of a u16
Decimal(n) ==
    IF n < 10 THEN <<DigitChars[n + 1]>>
    ELSE Decimal(n \div 10) \o <<DigitChars[(n % 10) + 1]>>

\* tunnel(): "CONNECT {0}:{1} HTTP/1.1\r\nHost: {0}:{1}\r\n" and the "\r\n"
\* that ends the headers
Request(host, port) ==
    <<"C", "O", "N", "N", "E", "C", "T", " ">> \o host \o <<":">> \o Decimal(port)
        \o <<" ", "H", "T", "T", "P", "/", "1", ".", "1">> \o CRLF
        \o <<"H", "o", "s", "t", ":", " ">> \o host \o <<":">> \o Decimal(port) \o CRLF
        \o CRLF

starts_with(s, prefix) ==
    Len(prefix) <= Len(s) /\ SubSeq(s, 1, Len(prefix)) = prefix
ends_with(s, suffix) ==
    Len(suffix) <= Len(s) /\ SubSeq(s, Len(s) - Len(suffix) + 1, Len(s)) = suffix

Http11 == <<"H", "T", "T", "P", "/", "1", ".", "1", " ">>
Http10 == <<"H", "T", "T", "P", "/", "1", ".", "0", " ">>
Ok11 == Http11 \o <<"2", "0", "0">>
Ok10 == Http10 \o <<"2", "0", "0">>
Auth11 == Http11 \o <<"4", "0", "7">>
Established ==
    <<" ", "C", "o", "n", "n", "e", "c", "t", "i", "o", "n", " ",
      "e", "s", "t", "a", "b", "l", "i", "s", "h", "e", "d">>

\* the buffer taken for drained while its last byte is still to be written
has_remaining_mut_early(b, p) == p + 1 < Len(b)

\* io::Cursor<Vec<u8>> as Buf / BufMut: what lies between the position and
\* the end of the vector
has_remaining_mut(b, p) == p < Len(b)

\* a write that accepts nothing taken for progress
WriteVerdict_noeof(b, p, n) ==
    IF ~has_remaining_mut(b, p) THEN "Drained" ELSE "More"

\* poll, Writing, lines 63-68: what the write of n bytes that left the cursor
\* at p amounts to
WriteVerdict(b, p, n) ==
    IF ~has_remaining_mut(b, p) THEN "Drained"
    ELSE IF n = 0 THEN "Eof"
    ELSE "More"

\* the 407 of either protocol version taken for the proxy's demand
Classify_anyauth(read, n) ==
    IF n = 0 THEN "Eof"
    ELSE IF Len(read) > 12
    THEN IF starts_with(read, Ok11) \/ starts_with(read, Ok10)
         THEN IF ends_with(read, Terminator) THEN "Ok" ELSE "More"
         ELSE IF starts_with(read, Auth11) \/ starts_with(read, Http10 \o <<"4", "0", "7">>)
         THEN "ProxyAuth"
         ELSE "Unsuccessful"
    ELSE "More"

\* a read that delivers nothing taken for a short read
Classify_eofmore(read, n) ==
    IF Len(read) > 12
    THEN IF starts_with(read, Ok11) \/ starts_with(read, Ok10)
         THEN IF ends_with(read, Terminator) THEN "Ok" ELSE "More"
         ELSE IF starts_with(read, Auth11) THEN "ProxyAuth"
         ELSE "Unsuccessful"
    ELSE "More"

\* success only when the blank line arrives within one read
Classify_oneread(read, n) ==
    IF n = 0 THEN "Eof"
    ELSE IF Len(read) > 12
    THEN IF starts_with(read, Ok11) \/ starts_with(read, Ok10)
         THEN IF ends_with(read, Terminator) /\ n >= Len(Terminator) THEN "Ok" ELSE "More"
         ELSE IF starts_with(read, Auth11) THEN "ProxyAuth"
         ELSE "Unsuccessful"
    ELSE "More"

\* success on the status line alone, without the blank line
Classify_unterminated(read, n) ==
    IF n = 0 THEN "Eof"
    ELSE IF Len(read) > 12
    THEN IF starts_with(read, Ok11) \/ starts_with(read, Ok10)
         THEN "Ok"
         ELSE IF starts_with(read, Auth11) THEN "ProxyAuth"
         ELSE "Unsuccessful"
    ELSE "More"

\* poll, Reading, lines 76-92: what the bytes read so far amount to, after a
\* read of n bytes
Classify(read, n) ==
    IF n = 0 THEN "Eof"
    ELSE IF Len(read) > 12
    THEN IF starts_with(read, Ok11) \/ starts_with(read, Ok10)
         THEN IF ends_with(read, Terminator) THEN "Ok" ELSE "More"
         ELSE IF starts_with(read, Auth11) THEN "ProxyAuth"
         ELSE "Unsuccessful"
    ELSE "More"

\* what a call of poll returns
NotReady == [kind |-> "NotReady", item |-> <<>>]
Ready(stream) == [kind |-> "Ok", item |-> <<stream>>]
Err(e) == [kind |-> e, item |-> <<>>]

\* the streams and targets the tunnels of the model are built for
Streams == {"s1", "s2"}
Hosts == {<<"h">>, <<"a", "b">>}
TunnelPorts == {80, 443}

\* what a proxy may send once it has the request (it may close, or stall,
\* after any number of these bytes)
Responses ==
    { Ok11 \o Terminator,
      Ok11 \o Established \o Terminator,
      Ok10 \o <<" ", "O", "K">> \o Terminator,
      Ok11 \o CRLF \o <<"A", ":", "b">> \o Terminator,
      Ok11 \o Terminator \o <<"x", "y">>,
      Ok11 \o Terminator \o <<"x">> \o Terminator,
      Auth11 \o <<" ">> \o Terminator,
      Http10 \o <<"4", "0", "7">> \o Terminator,
      Http11 \o <<"5", "0", "0">> \o Terminator,
      <<"S", "S", "H", "-", "2", ".", "0", "-", "x", "x", "x", "x", "x", "x">> }

(* ------------------------------- state -------------------------------- *)

VARIABLES
    domain2addrs,   \* DOMAIN2SORTED_ADDRS: domain -> the set, in iteration order
    inflight,       \* the insert between its two critical sections, if any
    last,           \* the call that returned last, its arguments and result
    nops            \* registry-mutating calls made so far

dnsVars == <<domain2addrs, inflight, last, nops>>

VARIABLES
    cmpIn,          \* three SortedAddr values handed to cmp
    cmpOut          \* what cmp returned for their pairs

cmpVars == <<cmpIn, cmpOut>>

VARIABLES
    avgIn,          \* the connect_costs handed to avg_cost
    avgOut          \* what avg_cost returned

avgVars == <<avgIn, avgOut>>

VARIABLES
    custom,         \* CUSTOM_DOMAIN2ADDR
    cached,         \* CACHED_DOMAIN2ADDR
    connected,      \* CONNECTED_ADDR
    poisoned        \* the locks a panicking holder has poisoned

storeVars == <<custom, cached, connected, poisoned>>

\* no average asked for
AvgIdle == avgIn = <<>> /\ avgOut = <<>>

\* the stores as lazy_static builds them
StoreInit ==
    /\ custom = <<>>
    /\ cached = <<>>
    /\ connected = <<>>
    /\ poisoned = {}

VARIABLES
    target,         \* the host and port tunnel() was called with
    state,          \* Tunnel.state
    buf,            \* Tunnel.buf: the vector under the cursor
    pos,            \* Tunnel.buf: the position of the cursor
    conn,           \* Tunnel.conn: the stream, until it is handed over
    polling,        \* a call of poll is under way
    result,         \* what the last call of poll returned
    wire,           \* the bytes the stream has accepted
    incoming,       \* the bytes the proxy has still to deliver
    ops,            \* reads and writes made by the call of poll under way
    lastIo          \* the outcome of the last read or write

tunnelVars ==
    <<target, state, buf, pos, conn, polling, result, wire, incoming, ops, lastIo>>

\* no comparison asked for
CmpIdle == cmpIn = <<>> /\ cmpOut = <<>>

\* no tunnel built
TunnelIdle ==
    /\ target = <<>>
    /\ state = "Writing"
    /\ buf = <<>>
    /\ pos = 0
    /\ conn = <<>>
    /\ polling = FALSE
    /\ result = [kind |-> "None", item |-> <<>>]
    /\ wire = <<>>
    /\ incoming = <<>>
    /\ ops = 0
    /\ lastIo = "none"

DnsInit ==
    /\ domain2addrs = <<>>
    /\ inflight = <<>>
    /\ last = [op |-> "none"]
    /\ nops = 0

\* the candidates a caller builds for one source with SortedAddr::new
Candidates(source) == { NewSortedAddr(ip, rto, source) : ip \in IPs, rto \in BOOLEAN }

\* the candidate lists handed to insert: up to MaxList addresses of one
\* source, each address once, listed by rising IP
CandidateLists ==
    [source \in Sources |->
        { l \in UNION { [1 .. n -> Candidates(source)] : n \in 0 .. MaxList } :
            \A i \in 1 .. Len(l) - 1 : l[i].addr < l[i + 1].addr }]

SizeOf(m, domain) == IF domain \in DOMAIN m THEN Len(m[domain]) ELSE 0

\* a behaviour makes at most max mutating calls; get_sorted_addrs only reads
\* the registry, so the plans a behaviour asks for come at its end
Budget(max) == nops < max /\ last.op # "plan"

(* ------------------------------ actions ------------------------------- *)

\* insert_domain_sorted_addrs(domain, sorted_addrs, source), a single caller;
\* order is the iteration order of the HashSet of removed entries
Insert(domain, sorted_addrs, source, order) ==
    /\ inflight = <<>>
    /\ SizeOf(domain2addrs, domain) + Len(sorted_addrs) <= LeafCapacity
    /\ domain2addrs' =
           insert_domain_sorted_addrs(domain2addrs, domain, sorted_addrs, source, order)
    /\ last' = [op |-> "insert", domain |-> domain, sorted_addrs |-> sorted_addrs,
                source |-> source]
    /\ nops' = nops + 1
    /\ UNCHANGED <<inflight, cmpVars, avgVars, storeVars, tunnelVars>>

\* the first critical section of an insert that shares the registry with
\* other callers: remove_old_domain_sorted_addrs returns and unlocks
InsertRemove(domain, sorted_addrs, source, order) ==
    /\ inflight = <<>>
    /\ SizeOf(domain2addrs, domain) + Len(sorted_addrs) <= LeafCapacity
    /\ LET r == remove_old_domain_sorted_addrs(domain2addrs, domain, source, order)
       IN  /\ domain2addrs' = r.map
           /\ inflight' = <<[domain |-> domain, sorted_addrs |-> sorted_addrs,
                             source |-> source, old_addrs |-> r.removed,
                             pre |-> domain2addrs, clean |-> TRUE]>>
    /\ last' = [op |-> "remove_old", domain |-> domain, source |-> source]
    /\ nops' = nops + 1
    /\ UNCHANGED <<cmpVars, avgVars, storeVars, tunnelVars>>

\* the second critical section of that insert
InsertMerge ==
    /\ inflight # <<>>
    /\ last.op # "plan"
    /\ LET c == inflight[1]
       IN  /\ domain2addrs' =
                 merge_domain_sorted_addrs(domain2addrs, c.domain, c.sorted_addrs, c.old_addrs)
           /\ last' = [op |-> "insert", domain |-> c.domain,
                       sorted_addrs |-> c.sorted_addrs, source |-> c.source]
    /\ inflight' = <<>>
    /\ UNCHANGED <<nops, cmpVars, avgVars, storeVars, tunnelVars>>

\* update_domain_sorted_addr_cost(domain, addr, cost_ms)
RecordCost(domain, addr, cost_ms) ==
    /\ domain2addrs' = update_domain_sorted_addr_cost(domain2addrs, domain, addr, cost_ms)
    /\ last' = [op |-> "record", domain |-> domain, addr |-> addr, cost_ms |-> cost_ms]
    /\ inflight' = [i \in DOMAIN inflight |-> [inflight[i] EXCEPT !.clean = FALSE]]
    /\ nops' = nops + 1
    /\ UNCHANGED <<cmpVars, avgVars, storeVars, tunnelVars>>

\* get_sorted_addrs(domain, is_complex_conn, first_addr)
Plan(domain, is_complex_conn, first_addr) ==
    /\ last.op # "plan"
    /\ last' = [op |-> "plan", domain |-> domain, is_complex_conn |-> is_complex_conn,
                first_addr |-> first_addr, during |-> inflight,
                slate |-> IF SizeOf(domain2addrs, domain) > 0
                          THEN Slate(domain2addrs[domain], first_addr.port)
                          ELSE <<>>,
                out |-> get_sorted_addrs(domain2addrs, domain, is_complex_conn, first_addr)]
    /\ UNCHANGED <<domain2addrs, inflight, nops, cmpVars, avgVars, storeVars, tunnelVars>>

DoInsert(max) ==
    /\ Budget(max)
    /\ \E domain \in Domains, source \in Sources :
          \E order \in Orders(RemovedAddrs(domain2addrs, domain, source)) :
             \E sorted_addrs \in CandidateLists[source] :
                Insert(domain, sorted_addrs, source, order)

DoInsertRemove(max) ==
    /\ Budget(max)
    /\ \E domain \in Domains, source \in Sources :
          \E order \in Orders(RemovedAddrs(domain2addrs, domain, source)) :
             \E sorted_addrs \in CandidateLists[source] :
                InsertRemove(domain, sorted_addrs, source, order)

DoRecordCost(max) ==
    /\ Budget(max)
    /\ \E domain \in Domains, addr \in IPs, cost_ms \in Costs :
          RecordCost(domain, addr, cost_ms)

DoPlan ==
    \E domain \in Domains, is_complex_conn \in BOOLEAN, ip \in IPs, port \in Ports :
        Plan(domain, is_complex_conn, SocketAddr(ip, port))

\* an address that has been used: its samples are costs
NewSortedAddrWith(costs) ==
    [addr |-> 1, is_rto |-> FALSE, source |-> HttpDNS, connect_costs |-> costs]

\* the values cmp is asked about: every flag and source, unused or used once
SortedAddrValues ==
    { [addr |-> ip, is_rto |-> rto, source |-> src, connect_costs |-> costs] :
        ip \in IPs, rto \in BOOLEAN, src \in Sources,
        costs \in {<<>>} \cup { <<c>> : c \in Costs } }

\* a.cmp(&b) for the pairs of three values
Compare ==
    /\ cmpIn # <<>>
    /\ cmpOut = <<>>
    /\ cmpOut' = [ab |-> cmp(cmpIn[1], cmpIn[2]), ba |-> cmp(cmpIn[2], cmpIn[1]),
                  bc |-> cmp(cmpIn[2], cmpIn[3]), ac |-> cmp(cmpIn[1], cmpIn[3])]
    /\ UNCHANGED <<cmpIn, avgVars, dnsVars, storeVars, tunnelVars>>

\* tunnel(conn, host, port)
TunnelInit ==
    /\ target \in { [conn |-> c, host |-> h, port |-> p] :
                       c \in Streams, h \in Hosts, p \in TunnelPorts }
    /\ state = "Writing"
    /\ buf = Request(target.host, target.port)
    /\ pos = 0
    /\ conn = <<target.conn>>
    /\ polling = FALSE
    /\ result = NotReady
    /\ wire = <<>>
    /\ incoming = <<>>
    /\ ops = 0
    /\ lastIo = "none"

\* the executor calls poll on a future that has not completed
PollStart ==
    /\ ~polling
    /\ result = NotReady
    /\ conn # <<>>
    /\ polling' = TRUE
    /\ ops' = 0
    /\ UNCHANGED <<target, state, buf, pos, conn, result, wire, incoming, lastIo,
                   dnsVars, cmpVars, avgVars, storeVars>>

\* try_ready!: the stream is not ready, poll returns NotReady
WouldBlock ==
    /\ polling
    /\ polling' = FALSE
    /\ result' = NotReady
    /\ lastIo' = "WouldBlock"
    /\ UNCHANGED <<target, state, buf, pos, conn, wire, incoming, ops, dnsVars, cmpVars, avgVars, storeVars>>

\* try_ready!: the stream fails, poll returns its error
StreamError ==
    /\ polling
    /\ polling' = FALSE
    /\ result' = Err("IoError")
    /\ lastIo' = "Error"
    /\ UNCHANGED <<target, state, buf, pos, conn, wire, incoming, ops, dnsVars, cmpVars, avgVars, storeVars>>

\* one turn of the loop in Writing: write_buf hands the bytes from the cursor
\* on to the stream, which accepts n of them
WriteStep(n) ==
    /\ polling
    /\ state = "Writing"
    /\ n <= Len(buf) - pos
    /\ wire' = wire \o SubSeq(buf, pos + 1, pos + n)
    /\ pos' = pos + n
    /\ ops' = ops + 1
    /\ lastIo' = IF n = 0 THEN "Wrote0" ELSE "Wrote"
    /\ LET verdict == WriteVerdict(buf, pos + n, n)
       IN  IF verdict = "Drained"
           THEN /\ state' = "Reading"
                /\ buf' = <<>>
                /\ incoming' \in Responses
                /\ UNCHANGED <<polling, result>>
           ELSE /\ IF verdict = "Eof"
                   THEN polling' = FALSE /\ result' = Err("Eof")
                   ELSE UNCHANGED <<polling, result>>
                /\ UNCHANGED <<state, buf, incoming>>
    /\ UNCHANGED <<target, conn, dnsVars, cmpVars, avgVars, storeVars>>

\* one turn of the loop in Reading: read_buf appends the n bytes the stream
\* delivers (none when the peer has closed)
ReadStep(n) ==
    /\ polling
    /\ state = "Reading"
    /\ n <= Len(incoming)
    /\ LET read == buf \o SubSeq(incoming, 1, n)
           verdict == Classify(read, n)
       IN  /\ buf' = read
           /\ incoming' = SubSeq(incoming, n + 1, Len(incoming))
           /\ lastIo' = IF n = 0 THEN "Read0" ELSE "Read"
           /\ IF verdict = "More"
              THEN UNCHANGED <<polling, result, conn>>
              ELSE /\ polling' = FALSE
                   /\ result' = IF verdict = "Ok" THEN Ready(conn[1]) ELSE Err(verdict)
                   /\ conn' = IF verdict = "Ok" THEN <<>> ELSE conn
    /\ ops' = ops + 1
    /\ UNCHANGED <<target, state, pos, wire, dnsVars, cmpVars, avgVars, storeVars>>

DoWrite == \E n \in 0 .. MaxChunk : WriteStep(n)
DoRead == \E n \in 0 .. MaxChunk : ReadStep(n)

\* set_custom_addr(domain, addr)
SetCustom(domain, text) ==
    /\ custom' = set_custom_addr(custom, "CUSTOM_DOMAIN2ADDR" \in poisoned, domain, text)
    /\ last' = [op |-> "set_custom_addr", domain |-> domain, text |-> text]
    /\ nops' = nops + 1
    /\ UNCHANGED <<domain2addrs, inflight, cached, connected, poisoned,
                   cmpVars, avgVars, tunnelVars>>

\* try_get_custom_addr(domain)
GetCustom(domain) ==
    /\ last' = [op |-> "try_get_custom_addr", domain |-> domain,
                out |-> try_get_addr(custom, "CUSTOM_DOMAIN2ADDR" \in poisoned, domain)]
    /\ UNCHANGED <<domain2addrs, inflight, nops, storeVars, cmpVars, avgVars, tunnelVars>>

\* remove_custom_addr(domain)
RemoveCustom(domain) ==
    /\ custom' = remove_custom_addr(custom, "CUSTOM_DOMAIN2ADDR" \in poisoned, domain)
    /\ last' = [op |-> "remove_custom_addr", domain |-> domain]
    /\ nops' = nops + 1
    /\ UNCHANGED <<domain2addrs, inflight, cached, connected, poisoned,
                   cmpVars, avgVars, tunnelVars>>

\* cache_addr(domain, addr)
CacheAddr(domain, addr) ==
    /\ cached' = cache_addr(cached, "CACHED_DOMAIN2ADDR" \in poisoned, domain, addr)
    /\ last' = [op |-> "cache_addr", domain |-> domain, addr |-> addr]
    /\ nops' = nops + 1
    /\ UNCHANGED <<domain2addrs, inflight, custom, connected, poisoned,
                   cmpVars, avgVars, tunnelVars>>

\* try_get_cached_addr(domain)
GetCached(domain) ==
    /\ last' = [op |-> "try_get_cached_addr", domain |-> domain,
                out |-> try_get_addr(cached, "CACHED_DOMAIN2ADDR" \in poisoned, domain)]
    /\ UNCHANGED <<domain2addrs, inflight, nops, storeVars, cmpVars, avgVars, tunnelVars>>

\* set_connected_addr(addr)
SetConnected(addr) ==
    /\ connected' = set_connected_addr(connected, "CONNECTED_ADDR" \in poisoned, addr)
    /\ last' = [op |-> "set_connected_addr", addr |-> addr]
    /\ nops' = nops + 1
    /\ UNCHANGED <<domain2addrs, inflight, custom, cached, poisoned,
                   cmpVars, avgVars, tunnelVars>>

\* get_connected_addr()
GetConnected ==
    /\ last' = [op |-> "get_connected_addr",
                out |-> get_connected_addr(connected, "CONNECTED_ADDR" \in poisoned)]
    /\ UNCHANGED <<domain2addrs, inflight, nops, storeVars, cmpVars, avgVars, tunnelVars>>

\* a thread panics while it holds the write guard of a store: the guard is
\* dropped during unwinding and the lock is poisoned; the data stay as they are
Poison(store) ==
    /\ store \notin poisoned
    /\ poisoned' = poisoned \cup {store}
    /\ last' = [op |-> "panic", store |-> store]
    /\ UNCHANGED <<domain2addrs, inflight, nops, custom, cached, connected,
                   cmpVars, avgVars, tunnelVars>>

DoSetCustom(max) ==
    nops < max /\ \E domain \in StoreDomains, text \in IpTexts : SetCustom(domain, text)

DoGetCustom == \E domain \in StoreDomains : GetCustom(domain)

DoRemoveCustom(max) ==
    nops < max /\ \E domain \in StoreDomains : RemoveCustom(domain)

DoCacheAddr(max) ==
    nops < max /\ \E domain \in Domains, ip \in IPs, port \in Ports :
                      CacheAddr(domain, SocketAddr(ip, port))

DoGetCached == \E domain \in Domains : GetCached(domain)

DoSetConnected(max) ==
    nops < max /\ \E ip \in IPs, port \in Ports : SetConnected(SocketAddr(ip, port))

DoPoison == \E store \in Stores : Poison(store)

vars == <<dnsVars, cmpVars, avgVars, storeVars, tunnelVars>>

Init == DnsInit /\ CmpIdle /\ AvgIdle /\ StoreInit /\ TunnelIdle

\* one caller at a time: refreshes, cost reports, then plans
Next == DoInsert(PlanOps) \/ DoRecordCost(PlanOps) \/ DoPlan

Spec == Init /\ [][Next]_vars

\* one caller at a time, the mutating calls alone, to a greater depth
RegistryNext == DoInsert(MaxOps) \/ DoRecordCost(MaxOps)

RegistrySpec == Init /\ [][RegistryNext]_vars

\* callers on several threads: the steps are the critical sections
ConcNext == DoInsertRemove(ConcOps) \/ InsertMerge \/ DoRecordCost(ConcOps) \/ DoPlan

ConcSpec == Init /\ [][ConcNext]_vars

\* the samples avg_cost is asked about, small ones and the largest the
\* sentinel leaves room for
Samples == {0, 10, 400, I32Max - 4, I32Max - 3}

\* the connect_costs a SortedAddr can hold: at most MaxCosts samples
SampleLists == UNION { [1 .. n -> Samples] : n \in 0 .. MaxCosts }

\* a.avg_cost()
Avg ==
    /\ avgIn # <<>>
    /\ avgOut = <<>>
    /\ \E o \in avg_cost_outcomes(avgIn[1]) : avgOut' = <<o>>
    /\ UNCHANGED <<avgIn, cmpVars, dnsVars, storeVars, tunnelVars>>

\* avg_cost on every address
AvgInit ==
    /\ DnsInit
    /\ CmpIdle
    /\ StoreInit
    /\ TunnelIdle
    /\ avgIn \in { <<NewSortedAddrWith(costs)>> : costs \in SampleLists }
    /\ avgOut = <<>>

AvgSpec == AvgInit /\ [][Avg]_vars

\* cmp on every three values
CmpInit ==
    /\ DnsInit
    /\ AvgIdle
    /\ StoreInit
    /\ TunnelIdle
    /\ cmpIn \in SortedAddrValues \X SortedAddrValues \X SortedAddrValues
    /\ cmpOut = <<>>

CmpSpec == CmpInit /\ [][Compare]_vars

\* one tunnel, polled until it completes
TunnelStart == DnsInit /\ CmpIdle /\ AvgIdle /\ StoreInit /\ TunnelInit

TunnelNext == PollStart \/ WouldBlock \/ StreamError \/ DoWrite \/ DoRead

TunnelSpec == TunnelStart /\ [][TunnelNext]_vars

\* the stream takes or delivers at least one byte
Progress == \E n \in 1 .. MaxChunk : WriteStep(n) \/ ReadStep(n)

\* one tunnel, on one stream to one host, under fair polling (a future that is not complete is polled
\* again) on a stream that, polled again and again, does not block for ever
\* while it has bytes to take or to deliver
FairTunnelStart == TunnelStart /\ target.conn = "s1" /\ target.host = <<"h">>

FairTunnelSpec ==
    FairTunnelStart /\ [][TunnelNext]_vars /\ WF_vars(PollStart) /\ SF_vars(Progress)

\* the override store alone, one caller at a time
OverrideNext == DoSetCustom(OverrideOps) \/ DoGetCustom \/ DoRemoveCustom(OverrideOps)

OverrideSpec == Init /\ [][OverrideNext]_vars

\* the four stores, their setters and getters, and holders that panic
StoreNext ==
    \/ DoSetCustom(StoreOps) \/ DoGetCustom \/ DoRemoveCustom(StoreOps)
    \/ DoCacheAddr(StoreOps) \/ DoGetCached
    \/ DoSetConnected(StoreOps) \/ GetConnected
    \/ DoInsert(StoreOps) \/ DoPlan
    \/ DoPoison

StoreSpec == Init /\ [][StoreNext]_vars

(* ------------------------------- claims ------------------------------- *)

\* the set of one domain, empty when the registry does not know the domain
Registry(m, d) == IF d \in DOMAIN m THEN m[d] ELSE <<>>
Known(m, d) == d \in DOMAIN m
IPsOf(l) == { l[i].addr : i \in 1 .. Len(l) }
\* the last min(n, 3) of the samples h followed by c
Window(h, c) ==
    LET all == Append(h, c)
    IN  SubSeq(all, MaxOf(1, Len(all) - 2), Len(all))

\* C1: an insert(d, L, S) keeps the connect_costs of every entry S had
\* contributed whose IP is again in L, and the IPs of L that the registry did
\* not hold start with an empty history.
C1_InsertKeepsCostHistory ==
    [][ last'.op = "insert" =>
          LET d == last'.domain
              L == last'.sorted_addrs
              before == Elems(Registry(domain2addrs, d))
              after == Elems(Registry(domain2addrs', d))
          IN  /\ \A e \in before :
                    (e.source = last'.source /\ e.addr \in IPsOf(L)) =>
                        \E f \in after :
                            f.addr = e.addr /\ f.connect_costs = e.connect_costs
              /\ \A ip \in IPsOf(L) :
                    (\A e \in before : e.addr # ip) =>
                        \E f \in after : f.addr = ip /\ f.connect_costs = <<>>
      ]_vars

\* C2: a record_cost(d, a, c) on a tracked address leaves an entry for a that
\* holds the last min(n, 3) samples in arrival order: the samples of the
\* entry the call located, followed by c, at most three of them.
C2_CostWindow ==
    [][ last'.op = "record" =>
          LET d == last'.domain
              hit == Locate(Registry(domain2addrs, d), last'.addr)
          IN  hit # <<>> =>
                  \E f \in Elems(Registry(domain2addrs', d)) :
                      /\ f.addr = last'.addr
                      /\ Len(f.connect_costs) <= 3
                      /\ f.connect_costs = Window(hit[1].connect_costs, last'.cost_ms)
      ]_vars

\* what a reader finds for domain d: no set, or the set
View(m, d) == IF d \in DOMAIN m THEN <<m[d]>> ELSE <<>>

\* C3: a plan that reads the registry (is_complex_conn) while an insert on its
\* domain is between its two critical sections, no other call having changed
\* the registry meanwhile, sees the domain's set as it was before the insert
\* or as it is after it.
C3_PlanSeesWholeInsert ==
    (last.op = "plan" /\ last.is_complex_conn /\ last.during # <<>>) =>
        LET c == last.during[1]
            after == merge_domain_sorted_addrs(domain2addrs, c.domain,
                                               c.sorted_addrs, c.old_addrs)
        IN  (c.domain = last.domain /\ c.clean) =>
                \/ View(domain2addrs, c.domain) = View(c.pre, c.domain)
                \/ View(domain2addrs, c.domain) = View(after, c.domain)

\* C4: with is_complex_conn false, or for a domain without a set or with an
\* empty one, the plan is the single entry (first_addr, 0).
C4_SinglePlan ==
    (/\ last.op = "plan"
     /\ \/ ~last.is_complex_conn
        \/ ~Known(domain2addrs, last.domain)
        \/ Registry(domain2addrs, last.domain) = <<>>)
    => last.out = <<[addr |-> last.first_addr, delay_time |-> 0]>>

C4_Witness ==
    /\ last.op = "plan"
    /\ last.is_complex_conn
    /\ Known(domain2addrs, last.domain)
    /\ domain2addrs[last.domain] = <<>>
    /\ nops >= 2

\* the plan raced over a set that holds something
Raced ==
    /\ last.op = "plan"
    /\ last.is_complex_conn
    /\ Registry(domain2addrs, last.domain) # <<>>

\* C5: a raced plan has three entries; before first_addr is looked for, slot 1
\* is the best-ranked entry, slot 2 the second-best (slot 1 again when there
\* is one entry), slot 3 the first entry in rank order that was never used
\* and whose IP is in neither slot (slot 1 again when there is none).  Two
\* unused addresses 1 < 2 with first_addr 1 give (1,0), (2,300), (1,600).
C5_Slate ==
    Raced =>
        LET addrs == domain2addrs[last.domain]
            port == last.first_addr.port
            sl == last.slate
            fresh == { i \in 1 .. Len(addrs) :
                         /\ addrs[i].connect_costs = <<>>
                         /\ addrs[i].addr \notin {sl[1].addr.ip, sl[2].addr.ip} }
        IN  /\ Len(last.out) = 3
            /\ Len(sl) = 3
            /\ sl[1].addr = SocketAddr(addrs[1].addr, port)
            /\ \A i \in 1 .. Len(addrs) : cmp(addrs[i], addrs[1]) # "Less"
            /\ IF Len(addrs) = 1 THEN sl[2] = sl[1]
               ELSE /\ sl[2].addr = SocketAddr(addrs[2].addr, port)
                    /\ \A i \in 2 .. Len(addrs) : cmp(addrs[i], addrs[2]) # "Less"
            /\ IF fresh = {} THEN sl[3] = sl[1]
               ELSE \E i \in fresh :
                       /\ sl[3].addr = SocketAddr(addrs[i].addr, port)
                       /\ \A j \in fresh : i <= j
            /\ (/\ addrs = <<NewSortedAddr(1, FALSE, HttpDNS),
                             NewSortedAddr(2, FALSE, HttpDNS)>>
                /\ last.first_addr.ip = 1)
               => last.out = <<WithDelay(SocketAddr(1, port), 0),
                               WithDelay(SocketAddr(2, port), 300),
                               WithDelay(SocketAddr(1, port), 600)>>

C5_Witness ==
    /\ Raced
    /\ Len(domain2addrs[last.domain]) = 3
    /\ has_been_used(domain2addrs[last.domain][1])
    /\ ~has_been_used(domain2addrs[last.domain][2])
    /\ last.slate[3].addr.ip = domain2addrs[last.domain][3].addr

\* the addresses of a plan, in order
AddrsOf(plan) == [i \in 1 .. Len(plan) |-> plan[i].addr]

\* C6: every plan holds first_addr; when none of the three slots is
\* first_addr it comes first, followed by slots 1 and 2 in their order, and
\* the plan keeps three entries.
C6_PreferredPresent ==
    last.op = "plan" =>
        /\ \E i \in 1 .. Len(last.out) : last.out[i].addr = last.first_addr
        /\ Raced =>
              IF \E i \in 1 .. 3 : last.slate[i].addr = last.first_addr
              THEN AddrsOf(last.out) = AddrsOf(last.slate)
              ELSE AddrsOf(last.out) =
                       <<last.first_addr, last.slate[1].addr, last.slate[2].addr>>

C6_Witness ==
    /\ Raced
    /\ \A i \in 1 .. 3 : last.slate[i].addr # last.first_addr
    /\ last.slate[1].addr # last.slate[2].addr

\* the delay the specification gives an entry: 300 when never attempted,
\* else min(600, mean of the samples + 250)
MeanOf(costs) == (IF Len(costs) = 1 THEN costs[1]
                  ELSE IF Len(costs) = 2 THEN costs[1] + costs[2]
                  ELSE costs[1] + costs[2] + costs[3]) \div Len(costs)
DelayOf(e) ==
    IF e.connect_costs = <<>> THEN 300 ELSE MinOf(600, MeanOf(e.connect_costs) + 250)
Clamp(x, lo, hi) == IF x < lo THEN lo ELSE IF x > hi THEN hi ELSE x

\* C7: in every plan slot 0 has delay 0 and slot i >= 1 has the delay
\* clamp(delay_time(candidate) * i, 300 * i, 600 * i) of an entry of the set
\* with the slot's IP, a value within [300 * i, 600 * i].
C7_Delays ==
    last.op = "plan" =>
        /\ last.out[1].delay_time = 0
        /\ \A k \in 2 .. Len(last.out) :
              LET i == k - 1
              IN  /\ 300 * i <= last.out[k].delay_time
                  /\ last.out[k].delay_time <= 600 * i
                  /\ \E e \in Elems(Registry(domain2addrs, last.domain)) :
                        /\ e.addr = last.out[k].addr.ip
                        /\ last.out[k].delay_time = Clamp(DelayOf(e) * i, 300 * i, 600 * i)

C7_Witness ==
    /\ Raced
    /\ \A i \in 1 .. 3 : last.slate[i].addr # last.first_addr
    /\ last.out[2].delay_time = 300
    /\ last.slate[1].delay_time < 300
    /\ last.out[3].delay_time = 1200

(* C8: the ranking comparison is a total order: two values of distinct IP
   compare Less one way and Greater the other, two values of equal IP compare
   Equal whatever their other fields, and a <= b with b <= c gives a <= c. *)
Reverse(o) == CASE o = "Less" -> "Greater" [] o = "Greater" -> "Less" [] OTHER -> "Equal"

C8_TotalOrder ==
    cmpOut # <<>> =>
        /\ cmpIn[1].addr # cmpIn[2].addr =>
               cmpOut.ab \in {"Less", "Greater"} /\ cmpOut.ba = Reverse(cmpOut.ab)
        /\ cmpIn[1].addr = cmpIn[2].addr => cmpOut.ab = "Equal" /\ cmpOut.ba = "Equal"
        /\ (cmpOut.ab # "Greater" /\ cmpOut.bc # "Greater") => cmpOut.ac # "Greater"

(* C9: the tunnel starts in Writing; it is in Reading only when the stream
   has accepted the whole request "CONNECT host:port HTTP/1.1 CRLF Host:
   host:port CRLF CRLF"; it never goes from Reading back to Writing; no read
   is made while it is in Writing; and whatever the split into writes, the
   bytes the stream has accepted are the request up to the cursor, each byte
   once and in order. *)
TheRequest ==
    <<"C", "O", "N", "N", "E", "C", "T", " ">> \o target.host \o <<":">>
        \o (IF target.port = 80 THEN <<"8", "0">> ELSE <<"4", "4", "3">>)
        \o <<" ", "H", "T", "T", "P", "/", "1", ".", "1", "CR", "LF">>
        \o <<"H", "o", "s", "t", ":", " ">> \o target.host \o <<":">>
        \o (IF target.port = 80 THEN <<"8", "0">> ELSE <<"4", "4", "3">>)
        \o <<"CR", "LF", "CR", "LF">>

C9_WriteThenRead ==
    /\ state = "Writing"
    /\ [](state = "Reading" => wire = TheRequest)
    /\ [](state = "Writing" =>
            /\ pos <= Len(TheRequest)
            /\ wire = SubSeq(TheRequest, 1, pos)
            /\ pos = Len(TheRequest) => ~polling)
    /\ [][state = "Reading" => state' = "Reading"]_vars
    /\ [][lastIo' \in {"Read", "Read0"} => state = "Reading"]_vars
    /\ [][wire' # wire => state = "Writing" /\ lastIo' = "Wrote"]_vars

\* the request went out in several writes within one poll
C9_Witness ==
    /\ state = "Reading"
    /\ lastIo = "Wrote"
    /\ ops >= 3
    /\ wire = TheRequest
    /\ buf = <<>>

(* C10: poll completes with the stream only when the bytes read are more than
   12, start with "HTTP/1.1 200" or "HTTP/1.0 200" and end with CRLF CRLF, and
   the stream it yields is the one the tunnel was built on; while the bytes
   read start with one of the two prefixes and do not end with CRLF CRLF, poll
   has returned no error of its own (only the stream's end or failure ends
   it) and every read that delivered bytes is followed by another turn of the
   loop. *)
Has200(b) ==
    \/ starts_with(b, <<"H", "T", "T", "P", "/", "1", ".", "1", " ", "2", "0", "0">>)
    \/ starts_with(b, <<"H", "T", "T", "P", "/", "1", ".", "0", " ", "2", "0", "0">>)

EndsBlank(b) == ends_with(b, <<"CR", "LF", "CR", "LF">>)

C10_Success ==
    /\ result.kind = "Ok" =>
           /\ Len(buf) > 12
           /\ Has200(buf)
           /\ EndsBlank(buf)
           /\ result.item = <<target.conn>>
           /\ conn = <<>>
    /\ (state = "Reading" /\ Has200(buf) /\ ~EndsBlank(buf)) =>
           /\ result.kind \in {"NotReady", "Eof", "IoError"}
           /\ result.kind = "Eof" => lastIo = "Read0"
           /\ result.kind = "IoError" => lastIo = "Error"
           /\ lastIo = "Read" => polling /\ conn = <<target.conn>>

\* a response with a header line, read in several pieces, accepted
C10_Witness ==
    /\ result.kind = "Ok"
    /\ lastIo = "Read"
    /\ ops >= 3
    /\ Len(buf) > 16
    /\ incoming = <<>>

(* C11: in Reading the response is classified only once more than 12 bytes
   have been read: bytes that start with "HTTP/1.1 407" end the tunnel with
   the proxy-authentication error; bytes that start with neither 200 prefix
   nor "HTTP/1.1 407" ("HTTP/1.0 407" among them) end it with the
   unsuccessful-tunnel error; with 12 bytes or fewer neither error is
   reported and a read that delivered bytes is followed by another. *)
Has407(b) ==
    starts_with(b, <<"H", "T", "T", "P", "/", "1", ".", "1", " ", "4", "0", "7">>)

C11_Classification ==
    /\ result.kind = "ProxyAuth" => Len(buf) > 12 /\ Has407(buf)
    /\ result.kind = "Unsuccessful" => Len(buf) > 12 /\ ~Has200(buf) /\ ~Has407(buf)
    /\ (state = "Reading" /\ Len(buf) > 12 /\ Has407(buf)) =>
           result.kind = "ProxyAuth" /\ ~polling
    /\ (state = "Reading" /\ Len(buf) > 12 /\ ~Has200(buf) /\ ~Has407(buf)) =>
           result.kind = "Unsuccessful" /\ ~polling
    /\ (state = "Reading" /\ Len(buf) <= 12) =>
           /\ result.kind \notin {"ProxyAuth", "Unsuccessful", "Ok"}
           /\ lastIo = "Read" => polling

\* the 407 of an HTTP/1.0 proxy, refused as an unsuccessful tunnel
C11_Witness ==
    /\ result.kind = "Unsuccessful"
    /\ starts_with(buf, <<"H", "T", "T", "P", "/", "1", ".", "0", " ", "4", "0", "7">>)
    /\ lastIo = "Read"

(* C12: a write that accepts no byte while bytes of the request remain, and a
   read that delivers no byte in Reading, end the tunnel with the
   unexpected-EOF error whatever has been read so far; a would-block in
   either state ends the poll with NotReady and leaves state, buffer, cursor,
   stream and the bytes on the wire as they were. *)
C12_EofAndWouldBlock ==
    /\ [][(ops' = ops + 1 /\ lastIo' \in {"Wrote0", "Read0"}) =>
              /\ result'.kind = "Eof"
              /\ ~polling'
              /\ conn' = conn
              /\ lastIo' = "Wrote0" => state = "Writing" /\ pos < Len(buf)
              /\ lastIo' = "Read0" => state = "Reading" /\ buf' = buf]_vars
    /\ [][(polling /\ lastIo' = "WouldBlock") =>
              /\ result'.kind = "NotReady"
              /\ ~polling'
              /\ state' = state /\ buf' = buf /\ pos' = pos
              /\ conn' = conn /\ wire' = wire /\ incoming' = incoming]_vars
    /\ [](result.kind = "Eof" => lastIo \in {"Wrote0", "Read0"})

\* the peer closes after an accepted status line, before the blank line
C12_Witness ==
    /\ result.kind = "Eof"
    /\ lastIo = "Read0"
    /\ Len(buf) > 12
    /\ Has200(buf)
    /\ ~EndsBlank(buf)

(* C13: poisoning wedges no store: once a panicking holder has poisoned the
   lock of the per-domain registry, the override store, the address cache or
   the connected-address cell, every later setter on that store still takes
   effect and every later getter still returns what the store holds. *)
Stored(m, d) == IF d \in DOMAIN m THEN <<m[d]>> ELSE <<>>

\* the address a well-formed text stands for: none for a malformed one
OverrideFor(text) ==
    CASE text = <<"9", "3", ".", "1", "8", "4", ".", "2", "1", "6", ".", "3", "4">> ->
             <<[ip |-> <<93, 184, 216, 34>>, port |-> 443]>>
      [] text = <<"1", "0", ".", "0", ".", "0", ".", "1">> ->
             <<[ip |-> <<10, 0, 0, 1>>, port |-> 443]>>
      [] OTHER -> <<>>

C13_PoisonRecovered ==
    /\ [][("CUSTOM_DOMAIN2ADDR" \in poisoned /\ last'.op = "set_custom_addr"
             /\ OverrideFor(last'.text) # <<>>) =>
              Stored(custom', last'.domain) = OverrideFor(last'.text)]_vars
    /\ [][("CUSTOM_DOMAIN2ADDR" \in poisoned /\ last'.op = "remove_custom_addr") =>
              Stored(custom', last'.domain) = <<>>]_vars
    /\ [][("CUSTOM_DOMAIN2ADDR" \in poisoned /\ last'.op = "try_get_custom_addr") =>
              last'.out = Stored(custom, last'.domain)]_vars
    /\ [][("CACHED_DOMAIN2ADDR" \in poisoned /\ last'.op = "cache_addr") =>
              Stored(cached', last'.domain) = <<last'.addr>>]_vars
    /\ [][("CACHED_DOMAIN2ADDR" \in poisoned /\ last'.op = "try_get_cached_addr") =>
              last'.out = Stored(cached, last'.domain)]_vars
    /\ [][("CONNECTED_ADDR" \in poisoned /\ last'.op = "set_connected_addr") =>
              connected' = <<last'.addr>>]_vars
    /\ [][("CONNECTED_ADDR" \in poisoned /\ last'.op = "get_connected_addr") =>
              last'.out = connected]_vars
    /\ [][("DOMAIN2SORTED_ADDRS" \in poisoned /\ last'.op = "insert") =>
              IPsOf(last'.sorted_addrs) \subseteq IPsOf(Registry(domain2addrs', last'.domain))]_vars
    /\ [][("DOMAIN2SORTED_ADDRS" \in poisoned /\ last'.op = "plan" /\ last'.is_complex_conn
             /\ Registry(domain2addrs, last'.domain) # <<>>) =>
              Len(last'.out) = 3]_vars

(* C14: set_override(d, text) with well-formed IPv4 text makes d's override
   that address with port 443; with malformed text it changes nothing;
   remove_override(d) leaves d without override; get_override(d) returns d's
   override, absent when there is none, and changes nothing; no call on one
   domain changes the override of another.  (So get_override returns the
   address of the latest well-formed set since the last remove.) *)
C14_OverrideStore ==
    /\ [][last'.op = "set_custom_addr" =>
              /\ Stored(custom', last'.domain) =
                     IF OverrideFor(last'.text) # <<>> THEN OverrideFor(last'.text)
                     ELSE Stored(custom, last'.domain)
              /\ \A d \in StoreDomains \ {last'.domain} :
                     Stored(custom', d) = Stored(custom, d)]_vars
    /\ [][last'.op = "remove_custom_addr" =>
              /\ Stored(custom', last'.domain) = <<>>
              /\ \A d \in StoreDomains \ {last'.domain} :
                     Stored(custom', d) = Stored(custom, d)]_vars
    /\ [][last'.op = "try_get_custom_addr" =>
              /\ last'.out = Stored(custom, last'.domain)
              /\ custom' = custom]_vars
    /\ [](\A d \in DOMAIN custom : custom[d].port = 443)
    /\ [](DOMAIN custom \subseteq StoreDomains)

\* an override read back after a malformed set on it and a removal next to it
C14_Witness ==
    /\ last.op = "try_get_custom_addr"
    /\ last.domain = "d1"
    /\ last.out = <<[ip |-> <<93, 184, 216, 34>>, port |-> 443]>>
    /\ DOMAIN custom = {"d1"}
    /\ nops >= 4

(* C15: record_cost(domain, addr, cost) on a domain without registry, or on
   a registry none of whose entries has IP addr, changes nothing: the known
   domains and every registry (members, order, cost histories, flags,
   sources) are as before, and the call returns normally. *)
C15_RecordCostMiss ==
    [][ (last'.op = "record"
           /\ \A e \in Elems(Registry(domain2addrs, last'.domain)) : e.addr # last'.addr) =>
          /\ domain2addrs' = domain2addrs
          /\ DOMAIN domain2addrs' = DOMAIN domain2addrs
      ]_vars

\* a cost reported for an IP the domain's registry, which has entries with
\* samples, does not track
C15_Witness ==
    /\ last.op = "record"
    /\ Known(domain2addrs, last.domain)
    /\ \A e \in Elems(Registry(domain2addrs, last.domain)) : e.addr # last.addr
    /\ \E e \in Elems(Registry(domain2addrs, last.domain)) : e.connect_costs # <<>>

(* C16: a poll of the tunnel makes its reads and writes one after another,
   each moving at least one byte, and returns control only when the stream
   would block (NotReady), when the stream fails or closes, or when the
   response has been classified; it returns NotReady for no other reason. *)
BytesMoved == Len(wire) + (IF state = "Reading" THEN Len(buf) ELSE 0)

C16_PollRunsUntilBlocked ==
    /\ [][(polling /\ polling' /\ ops' = ops + 1) =>
              Len(wire') + (IF state' = "Reading" THEN Len(buf') ELSE 0) > BytesMoved]_vars
    /\ [][(polling /\ ~polling') =>
              /\ result'.kind = "NotReady" <=> lastIo' = "WouldBlock"
              /\ result'.kind = "IoError" <=> lastIo' = "Error"
              /\ lastIo' \in {"Wrote", "Read"} =>
                     result'.kind \in {"Ok", "ProxyAuth", "Unsuccessful"}]_vars
    /\ [](ops <= BytesMoved + 1)

\* the statement as the specification has it: no second read or write within
\* one poll
C16_OneOpPerPoll == ops <= 1

\* a poll that has written the end of the request and gone on to read
C16_Witness ==
    /\ polling
    /\ state = "Reading"
    /\ lastIo = "Read"
    /\ ops >= 3
    /\ buf # <<>>

(* C17: avg_cost of an address without samples is the sentinel i32::MAX, and
   avg_cost of an address with 1 to 3 samples, none above the sentinel minus
   3, is a value strictly below the sentinel, the sum being an i32 sum. *)
C17_SentinelAboveAverages ==
    avgOut # <<>> =>
        LET costs == avgIn[1].connect_costs
        IN  /\ costs = <<>> => avgOut[1] = [kind |-> "value", value |-> 2147483647]
            /\ (costs # <<>> /\ \A i \in 1 .. Len(costs) : costs[i] <= 2147483647 - 3) =>
                   avgOut[1].kind = "value" /\ avgOut[1].value < 2147483647

(* C18: when insert(d, L, S) meets a candidate whose IP the registry of d
   holds under another source, the registry afterwards has exactly one entry
   for that IP, with is_rto the OR of the entry's flag and the candidate's,
   and with the entry's connect_costs, wherever the entry ranks. *)
At(s, ip) == { i \in 1 .. Len(s) : s[i].addr = ip }

C18_MergeAcrossSources ==
    [][ last'.op = "insert" =>
          LET L == last'.sorted_addrs
              before == Registry(domain2addrs, last'.domain)
              after == Registry(domain2addrs', last'.domain)
          IN  \A k \in 1 .. Len(L) :
                 \A i \in At(before, L[k].addr) :
                    (At(before, L[k].addr) = {i} /\ before[i].source # last'.source) =>
                        /\ Cardinality(At(after, L[k].addr)) = 1
                        /\ \A j \in At(after, L[k].addr) :
                              /\ after[j].is_rto = (before[i].is_rto \/ L[k].is_rto)
                              /\ after[j].connect_costs = before[i].connect_costs
      ]_vars

(* C19: after insert(d, L, S) every IP of L is in d's registry; no entry
   that had source S and whose IP is not in L is left; every entry of another
   source whose IP is not in L is there unchanged; and the registry of every
   other domain is as before. *)
C19_InsertFrame ==
    [][ last'.op = "insert" =>
          LET L == last'.sorted_addrs
              before == Elems(Registry(domain2addrs, last'.domain))
              after == Elems(Registry(domain2addrs', last'.domain))
          IN  /\ IPsOf(L) \subseteq { f.addr : f \in after }
              /\ \A e \in before :
                    (e.source = last'.source /\ e.addr \notin IPsOf(L)) =>
                        ~ \E f \in after : f.addr = e.addr /\ f.source = e.source
              /\ \A e \in before :
                    (e.source # last'.source /\ e.addr \notin IPsOf(L)) => e \in after
              /\ \A d \in DOMAIN domain2addrs \ {last'.domain} :
                    d \in DOMAIN domain2addrs' /\ domain2addrs'[d] = domain2addrs[d]
      ]_vars

(* C20: a record_cost(d, a, c) that runs while insert(d, L, S) is under way,
   a being an entry of source S before the insert and an IP of L, is not
   lost: when the insert has returned too, the entry for a ends with sample
   c. *)
C20_ConcurrentCostKept ==
    [][ (inflight # <<>> /\ inflight' = <<>> /\ last.op = "record" /\ last'.op = "insert"
           /\ last.domain = last'.domain
           /\ last.addr \in IPsOf(last'.sorted_addrs)
           /\ \E e \in inflight[1].old_addrs : e.addr = last.addr) =>
          \E f \in Elems(Registry(domain2addrs', last'.domain)) :
              /\ f.addr = last.addr
              /\ f.connect_costs # <<>>
              /\ f.connect_costs[Len(f.connect_costs)] = last.cost_ms
      ]_vars

(* C21: whatever inserts and cost reports have been made, no registry holds
   two entries with the same IP. *)
C21_OneEntryPerIP ==
    \A d \in DOMAIN domain2addrs :
        \A i, j \in 1 .. Len(domain2addrs[d]) :
            domain2addrs[d][i].addr = domain2addrs[d][j].addr => i = j

(* C22: whatever inserts and cost reports have been made, each registry
   iterates in rising rank: by avg_cost, then is_rto = true first, then by
   source, then by IP; so an entry that has been attempted never comes after
   one that has not, and the first entry has the least avg_cost. *)
MeanCost(e) ==
    IF e.connect_costs = <<>> THEN 2147483647
    ELSE MeanOf(e.connect_costs)

RankedBefore(e, f) ==
    \/ MeanCost(e) < MeanCost(f)
    \/ /\ MeanCost(e) = MeanCost(f)
       /\ \/ e.is_rto /\ ~f.is_rto
          \/ /\ e.is_rto = f.is_rto
             /\ \/ e.source < f.source
                \/ e.source = f.source /\ e.addr <= f.addr

C22_IteratesByRank ==
    \A d \in DOMAIN domain2addrs :
        LET s == domain2addrs[d]
        IN  /\ \A i, j \in 1 .. Len(s) : i < j => RankedBefore(s[i], s[j])
            /\ \A i, j \in 1 .. Len(s) :
                   (s[i].connect_costs = <<>> /\ s[j].connect_costs # <<>>) => j < i
            /\ \A i \in 1 .. Len(s) : MeanCost(s[1]) <= MeanCost(s[i])
            /\ (Raced /\ last.domain = d) =>
                   /\ last.slate[1].addr.ip = s[1].addr
                   /\ \A i \in 1 .. Len(s) : MeanCost(s[1]) <= MeanCost(s[i])

\* a cost report has moved an entry ahead of a never-attempted entry of
\* lower IP, and a plan has been drawn from the registry
C22_Witness ==
    /\ Raced
    /\ Len(domain2addrs[last.domain]) >= 2
    /\ domain2addrs[last.domain][1].connect_costs # <<>>
    /\ domain2addrs[last.domain][2].connect_costs = <<>>
    /\ domain2addrs[last.domain][2].addr < domain2addrs[last.domain][1].addr

(* C23: when the tunnel completes with success, the bytes it has read from
   the stream are the response head and nothing more: they end with CRLF CRLF
   and hold no CRLF CRLF before their end, however the incoming bytes were
   split across reads. *)
C23_ConsumesOnlyHead ==
    result.kind = "Ok" =>
        /\ EndsBlank(buf)
        /\ \A i \in 4 .. Len(buf) - 1 :
               SubSeq(buf, i - 3, i) # <<"CR", "LF", "CR", "LF">>

(* C24: under fair polling, on a stream that does not block for ever: the
   request is written in the end unless the stream fails or closes; once the
   response the proxy delivers starts with "HTTP/1.1 200" or "HTTP/1.0 200"
   and ends with CRLF CRLF, the tunnel completes with success in the end,
   however the response is split and whatever would-blocks come in between,
   unless the stream fails or closes first; and a stream that returns zero
   bytes ends the tunnel with an error. *)
C24_EventuallyCompletes ==
    /\ <>(state = "Reading" \/ lastIo \in {"Error", "Wrote0"})
    /\ (state = "Reading" /\ Has200(buf \o incoming) /\ EndsBlank(buf \o incoming))
           ~> (result.kind = "Ok" \/ lastIo \in {"Error", "Read0"})
    /\ (lastIo \in {"Wrote0", "Read0"}) ~> (result.kind = "Eof" /\ ~polling)

\* a poll resumed after a would-block completes the tunnel with one read
C24_Witness ==
    /\ result.kind = "Ok"
    /\ ops = 1
    /\ lastIo = "Read"
    /\ wire = TheRequest

====
